---------------------------- MODULE Spec2Model ----------------------------
(***************************************************************************)
(* A model of audiotools/data/datasets.py: the resumable samplers, the     *)
(* AudioLoader lookup, align_lists, AudioDataset.__getitem__ (one call, and *)
(* calls from parallel workers), ConcatDataset and the streaming decode    *)
(* stage decode_audiosignal.                                               *)
(*                                                                         *)
(* Each component has its own specification over the shared variables; a   *)
(* specification holds the variables of the other components at Idle.      *)
(***************************************************************************)
EXTENDS Integers, Sequences, FiniteSets, TLC

VARIABLES
    sampler,      \* constructor arguments of the resumable sampler (constant)
    start_idx,    \* self.start_idx
    pass_no,      \* number of __iter__() passes started so far
    it_state,     \* "none" | "running" | "exhausted" | "abandoned": the current pass
    it_pos,       \* i of enumerate(super().__iter__()) in the current pass
    yielded,      \* the indices the current pass has yielded, in order
    first_done,   \* history: the first pass ran to exhaustion
    lists,        \* align_lists: the catalogs handed in (mutated in place)
    matcher,      \* align_lists: the matcher strategy
    align_done,   \* align_lists has returned
    loaders,      \* the AudioLoader objects: name, audio_lists, audio_indices
    call,         \* the arguments (and the decoder's behaviour) of the last call
    ret,          \* what the last call returned or raised
    visited,      \* the (source_idx, item_idx) resolved for global_idx = 0, 1, ...
    dataset,      \* the AudioDataset's configuration, once it is constructed
    corrupt,      \* the lines appended to /tmp/corrupt.txt so far
    workers,      \* per worker: where it is in AudioDataset.__getitem__ and what it got
    seeded,       \* what the generator seeded with idx draws (fixed on first use)
    datasets,     \* ConcatDataset.datasets: the member datasets
    c_len,        \* what len(concat) returned, once it was asked
    routes,       \* what concat[idx] returned for idx = 0, 1, ...
    data,         \* decode_audiosignal: the grouped samples it is given
    d_state,      \* "running" (not started, or suspended at its yield) | "done" | "raised"
    d_pos,        \* the sample the generator is fanning out (0: none yet)
    d_exc,        \* how many excerpts of that sample have been yielded
    d_out         \* the records yielded so far

samplerVars == <<sampler, start_idx, pass_no, it_state, it_pos, yielded, first_done>>
alignVars == <<lists, matcher, align_done>>
loaderVars == <<loaders, call, ret, visited, dataset, corrupt>>
streamVars == <<data, d_state, d_pos, d_exc, d_out>>

workerVars == <<workers, seeded>>
concatVars == <<datasets, c_len, routes>>

vars == <<samplerVars, alignVars, loaderVars, streamVars, workerVars, concatVars>>

Idle == "idle"

\* the value of call and ret before any call
NoCall == [status |-> "idle"]

\* the value of dataset before AudioDataset.__init__
NoDataset == [status |-> "none"]

(***************************************************************************)
(* Bounds                                                                  *)
(***************************************************************************)
MaxLen == 3         \* len(dataset) of a sampler
MaxReplicas == 3    \* num_replicas of the distributed sampler
MaxPasses == 3      \* passes started on one sampler instance
NumDirs == 4        \* parent directories (recordings) align_lists' catalogs draw from
MaxItems == 2       \* items of one catalog of an AudioLoader
MaxIdx == 2         \* the largest idx asked of AudioDataset.__getitem__
MaxSamples == 3     \* grouped samples fed to decode_audiosignal
MaxExcerpts == 2    \* excerpts salient_excerpts returns for one audio entry
MaxMembers == 3     \* member datasets of a ConcatDataset
MaxMemberLen == 3   \* len() of a member dataset (its n_examples)

\* the recordings (parent directories) the catalogs of a dataset's loaders hold
Recordings == {1, 2}

\* the sources an AudioLoader is built over
SourceNames == <<"src0", "src1">>

\* the loader names of a multitrack dataset, in declared order
Tracks == <<"vocals", "drums", "bass">>

(***************************************************************************)
(* Helpers                                                                 *)
(***************************************************************************)
\* math.ceil(a / b) for b > 0
CeilDiv(a, b) == -((-a) \div b)

\* list(range(n)) as a sequence
Range(n) == [j \in 1..n |-> j - 1]

\* every ordering of 0..n-1: what a seeded shuffle of range(n) can produce
Perms(n) == {p \in [1..n -> 0..(n - 1)] : \A a, b \in 1..n : p[a] = p[b] => a = b}

\* s[from:] of a Python list (from >= 0)
Drop(s, from) == [j \in 1..(IF Len(s) > from THEN Len(s) - from ELSE 0) |-> s[j + from]]

\* an optional integer: {} is None, {v} is v
None == {}
Some(v) == {v}
ValueOf(o) == CHOOSE v \in o : TRUE

(***************************************************************************)
(* ResumableSequentialSampler / ResumableDistributedSampler                *)
(***************************************************************************)
\* DistributedSampler.num_samples (the base class of line 513)
NumSamples(n, replicas, drop_last) ==
    IF drop_last /\ n % replicas # 0
    THEN CeilDiv(n - replicas, replicas)
    ELSE CeilDiv(n, replicas)

\* DistributedSampler.__iter__: the (shuffled) indices, padded cyclically to
\* total_size (or cut to it under drop_last), then every replicas-th from rank
DistributedIndices(s) ==
    LET num == NumSamples(s.n, s.num_replicas, s.drop_last)
    IN  [j \in 1..num |->
            s.perm[((s.rank + (j - 1) * s.num_replicas) % s.n) + 1]]

\* SequentialSampler.__iter__: iter(range(len(data_source)))
SequentialIndices(s) == Range(s.n)

\* super().__iter__() of the sampler: the wrapped sequence
WrappedIndices(s) ==
    IF s.kind = "distributed" THEN DistributedIndices(s) ELSE SequentialIndices(s)

\* __init__: the stored start_idx (lines 519 and 534)
InitialStartIdxNoDiv(s) ==
    IF s.start = None THEN 0 ELSE ValueOf(s.start)

InitialStartIdx(s) ==
    IF s.start = None THEN 0
    ELSE IF s.kind = "distributed" THEN ValueOf(s.start) \div s.num_replicas
    ELSE ValueOf(s.start)

\* `if i >= self.start_idx` (lines 523 and 538)
PassesFilterOffByOne(i, start) == i > start

PassesFilter(i, start) == i >= start

\* the first position >= i of the wrapped sequence that passes the filter, or
\* Len + 1 when the loop runs off the end
RECURSIVE NextYield(_, _, _)
NextYield(seq, i, start) ==
    IF i >= Len(seq) THEN Len(seq) + 1
    ELSE IF PassesFilter(i, start) THEN i + 1
    ELSE NextYield(seq, i + 1, start)

Samplers ==
    {[kind |-> "sequential", n |-> n, num_replicas |-> 1, rank |-> 0,
      drop_last |-> FALSE, perm |-> Range(n), start |-> st] :
        n \in 0..MaxLen, st \in {None} \cup {Some(k) : k \in 0..MaxLen}}
    \cup
    UNION {{[kind |-> "distributed", n |-> n, num_replicas |-> r, rank |-> rk,
             drop_last |-> dl, perm |-> p, start |-> st] :
                rk \in 0..(r - 1), dl \in BOOLEAN, p \in Perms(n),
                st \in {None} \cup {Some(k) : k \in 0..MaxLen}} :
           n \in 0..MaxLen, r \in 1..MaxReplicas}

SamplerIdle ==
    /\ sampler = Idle
    /\ start_idx = 0
    /\ pass_no = 0
    /\ it_state = "none"
    /\ it_pos = 0
    /\ yielded = <<>>
    /\ first_done = FALSE

AlignIdle ==
    /\ lists = <<>>
    /\ matcher = Idle
    /\ align_done = FALSE

LoaderIdle ==
    /\ loaders = <<>>
    /\ call = NoCall
    /\ ret = NoCall
    /\ visited = <<>>
    /\ dataset = NoDataset
    /\ corrupt = <<>>

StreamIdle ==
    /\ data = <<>>
    /\ d_state = Idle
    /\ d_pos = 0
    /\ d_exc = 0
    /\ d_out = <<>>

WorkersIdle ==
    /\ workers = <<>>
    /\ seeded = <<>>

ConcatIdle ==
    /\ datasets = <<>>
    /\ c_len = None
    /\ routes = <<>>

SamplerInit ==
    /\ AlignIdle
    /\ LoaderIdle
    /\ StreamIdle
    /\ WorkersIdle
    /\ ConcatIdle
    /\ sampler \in Samplers
    /\ start_idx = InitialStartIdx(sampler)
    /\ pass_no = 0
    /\ it_state = "none"
    /\ it_pos = 0
    /\ yielded = <<>>
    /\ first_done = FALSE

\* iter(sampler): a new generator; its body has not run yet.  A pass that is
\* still running is left behind (the consumer stopped pulling from it).
Iter ==
    /\ pass_no < MaxPasses
    /\ it_state # "running"
    /\ pass_no' = pass_no + 1
    /\ it_state' = "running"
    /\ it_pos' = 0
    /\ yielded' = <<>>
    /\ UNCHANGED <<sampler, start_idx, first_done>>
    /\ UNCHANGED <<alignVars, loaderVars, streamVars>>
    /\ UNCHANGED <<workerVars, concatVars>>

\* next(generator): run the loop of lines 522-524 (537-539) to the next yield,
\* or off its end, where line 525 (540) resets start_idx
PullIndex ==
    /\ it_state = "running"
    /\ LET seq == WrappedIndices(sampler)
           at == NextYield(seq, it_pos, start_idx)
       IN  IF at <= Len(seq)
           THEN /\ yielded' = Append(yielded, seq[at])
                /\ it_pos' = at
                /\ UNCHANGED <<start_idx, it_state, first_done>>
           ELSE /\ it_state' = "exhausted"
                /\ start_idx' = 0
                /\ it_pos' = Len(seq)
                /\ first_done' = (first_done \/ pass_no = 1)
                /\ UNCHANGED yielded
    /\ UNCHANGED <<sampler, pass_no>>
    /\ UNCHANGED <<alignVars, loaderVars, streamVars>>
    /\ UNCHANGED <<workerVars, concatVars>>

\* the consumer stops pulling: the generator is closed at its yield (or before
\* it ever ran), so the statement after the loop is not executed
Abandon ==
    /\ it_state = "running"
    /\ it_state' = "abandoned"
    /\ UNCHANGED <<sampler, start_idx, pass_no, it_pos, yielded, first_done>>
    /\ UNCHANGED <<alignVars, loaderVars, streamVars>>
    /\ UNCHANGED <<workerVars, concatVars>>

SamplerNext == Iter \/ PullIndex \/ Abandon

SpecSampler == SamplerInit /\ [][SamplerNext]_vars

(***************************************************************************)
(* Claims on the samplers (checked under SpecSampler)                      *)
(***************************************************************************)
\* the start_idx = k the sampler was built with (None counts as 0)
GivenStart == IF sampler.start = None THEN 0 ELSE ValueOf(sampler.start)

\* C1: a ResumableSequentialSampler built with start_idx = k (0 <= k <= L) over
\* a dataset of length L yields exactly k..L-1, in order, on a first pass run to
\* exhaustion, and 0..L-1, in order, on every later pass run to exhaustion.
C1_SequentialResume ==
    (/\ sampler.kind = "sequential"
     /\ GivenStart <= sampler.n
     /\ it_state = "exhausted")
    => /\ pass_no = 1 => yielded = Drop(Range(sampler.n), GivenStart)
       /\ (pass_no > 1 /\ first_done) => yielded = Range(sampler.n)

C1_Witness ==
    /\ sampler.kind = "sequential"
    /\ sampler.n = 3
    /\ sampler.start = Some(2)
    /\ pass_no = 2
    /\ first_done
    /\ it_state = "exhausted"
    /\ yielded = <<0, 1, 2>>

\* C2 as stated: each replica of a ResumableDistributedSampler built with a
\* global start_idx = k (0 <= k <= L) over L items and R replicas (the base
\* sampler's drop_last left at its default, False) yields ceil((L-k)/R) indices
\* on its first pass.
C2_Original ==
    (/\ sampler.kind = "distributed"
     /\ ~sampler.drop_last
     /\ sampler.start # None
     /\ GivenStart <= sampler.n
     /\ pass_no = 1
     /\ it_state = "exhausted")
    => Len(yielded) = CeilDiv(sampler.n - GivenStart, sampler.num_replicas)

\* C2 as amended: the first pass of each replica yields the length of the
\* replica's own sequence (ceil(L/R); floor(L/R) under drop_last when R does not
\* divide L) minus k div R; without drop_last and with k a multiple of R this is
\* ceil((L-k)/R).
C2_FirstPassCount ==
    (/\ sampler.kind = "distributed"
     /\ GivenStart <= sampler.n
     /\ pass_no = 1
     /\ it_state = "exhausted")
    => LET L == sampler.n
           R == sampler.num_replicas
           own == IF sampler.drop_last /\ L % R # 0 THEN L \div R ELSE CeilDiv(L, R)
       IN  /\ Len(yielded) = own - (GivenStart \div R)
           /\ (~sampler.drop_last /\ GivenStart % R = 0)
                 => Len(yielded) = CeilDiv(L - GivenStart, R)

C2_Witness ==
    /\ sampler.kind = "distributed"
    /\ sampler.n = 3
    /\ sampler.num_replicas = 2
    /\ ~sampler.drop_last
    /\ sampler.start = Some(1)
    /\ pass_no = 1
    /\ it_state = "exhausted"
    /\ Len(yielded) = 2

\* C3 as stated: whatever happened to the earlier passes (run to exhaustion or
\* left before it), every pass after the first yields the full wrapped
\* sequence: only the first pass skips a prefix.
C3_SkipConsumedOnce ==
    (pass_no > 1 /\ it_state = "exhausted") => yielded = WrappedIndices(sampler)

(***************************************************************************)
(* Catalogs and align_lists                                                *)
(***************************************************************************)
\* A path is its parent directory and its file name; Path("none") has the
\* parent "." (0 here) and the name "none".
NonePath == [parent |-> 0, name |-> "none"]

\* {"path": "none"}: an item record is modelled by its path
Sentinel == NonePath

IsSentinel(item) == item = NonePath

\* the elements of a set of integers in ascending order
RECURSIVE SortedSeq(_)
SortedSeq(S) ==
    IF S = {} THEN <<>>
    ELSE LET m == CHOOSE a \in S : \A b \in S : a <= b
         IN  <<m>> \o SortedSeq(S \ {m})

\* a catalog as util.read_sources builds it: the files named `name` found under
\* the directories `dirs`, sorted by path
Catalog(dirs, name) ==
    LET d == SortedSeq(dirs)
    IN  [j \in 1..Len(d) |-> [parent |-> d[j], name |-> name]]

\* default_matcher (line 161: same parent directory) and a second strategy a
\* configuration can plug in, which accepts every pair
Matchers == {"parent", "always"}

Matches(m, x, y) ==
    IF m = "parent" THEN x.parent = y.parent ELSE TRUE

\* l.insert(i, item), i counted from 0
InsertAt(l, i, item) ==
    [j \in 1..(Len(l) + 1) |->
        IF j <= i THEN l[j] ELSE IF j = i + 1 THEN item ELSE l[j - 1]]

\* np.argmax([len(l) for l in lists]): the first list of maximal length
ArgMaxLen(ls) ==
    CHOOSE r \in 1..Len(ls) :
        /\ \A j \in 1..Len(ls) : Len(ls[j]) <= Len(ls[r])
        /\ \A j \in 1..(r - 1) : Len(ls[j]) < Len(ls[r])

\* lines 169-172: what one step of the inner loop does to list l at position i
\* (counted from 0) against the reference entry x
AlignOne(l, x, i, m) ==
    IF i >= Len(l) THEN Append(l, Sentinel)
    ELSE IF ~Matches(m, l[i + 1], x) THEN InsertAt(l, i, Sentinel)
    ELSE l

\* lines 167-172: the walk over enumerate(longest_list), for each position over
\* every list (the reference list included), the lists mutated in place
RECURSIVE AlignWalk(_, _, _, _, _)
AlignWalk(ls, m, ref, i, j) ==
    IF i >= Len(ls[ref]) THEN ls
    ELSE IF j > Len(ls) THEN AlignWalk(ls, m, ref, i + 1, 1)
    ELSE AlignWalk([ls EXCEPT ![j] = AlignOne(@, ls[ref][i + 1], i, m)],
                   m, ref, i, j + 1)

\* align_lists(lists, matcher)
AlignLists(ls, m) == AlignWalk(ls, m, ArgMaxLen(ls), 0, 1)

\* the parallel catalogs of n tracks
ParallelCatalogs(n) ==
    {[t \in 1..n |-> Catalog(dirs[t], Tracks[t])] :
        dirs \in [1..n -> SUBSET (1..NumDirs)]}

AlignInit ==
    /\ SamplerIdle
    /\ LoaderIdle
    /\ StreamIdle
    /\ WorkersIdle
    /\ ConcatIdle
    /\ \E n \in 1..Len(Tracks) : lists \in ParallelCatalogs(n)
    /\ matcher \in Matchers
    /\ align_done = FALSE

AlignListsCall ==
    /\ ~align_done
    /\ lists' = AlignLists(lists, matcher)
    /\ align_done' = TRUE
    /\ UNCHANGED matcher
    /\ UNCHANGED <<samplerVars, loaderVars, streamVars>>
    /\ UNCHANGED <<workerVars, concatVars>>

AlignNext == AlignListsCall

SpecAlign == AlignInit /\ [][AlignNext]_vars

(***************************************************************************)
(* Claims on align_lists (checked under SpecAlign)                         *)
(***************************************************************************)
\* C5 as stated: after align_lists has run, all catalogs have the same length
\* (sentinels filling the unmatched slots); two 3-item catalogs in which item 1
\* mismatches both reach length 4.
C5_EqualLength ==
    align_done => \A a, b \in 1..Len(lists) : Len(lists[a]) = Len(lists[b])

\* C6 as stated: after align_lists has run, at every position any two catalogs
\* that both hold a non-sentinel entry there hold entries the matcher accepts,
\* positions past the end of the reference catalog included.
C6_PairwiseMatch ==
    align_done =>
        \A a, b \in 1..Len(lists) :
            \A i \in 1..Len(lists[a]) :
                (i <= Len(lists[b]) /\ ~IsSentinel(lists[a][i]) /\ ~IsSentinel(lists[b][i]))
                    => Matches(matcher, lists[a][i], lists[b][i])

(***************************************************************************)
(* AudioLoader                                                             *)
(***************************************************************************)
\* Python's seq[i]: i is in range iff -len <= i < len
PyValid(n, i) == -n <= i /\ i < n

PyAt(seq, i) == seq[IF i < 0 THEN Len(seq) + i + 1 ELSE i + 1]

\* lines 65-69: the (src_idx, item_idx) pairs of the catalogs from source s on
\* (s counted from 1), in catalog order
RECURSIVE FlattenFrom(_, _)
FlattenFrom(al, s) ==
    IF s > Len(al) THEN <<>>
    ELSE [j \in 1..Len(al[s]) |-> <<s - 1, j - 1>>] \o FlattenFrom(al, s + 1)

FlattenDropLast(al) ==
    LET f == FlattenFrom(al, 1) IN [j \in 1..(Len(f) - 1) |-> f[j]]

Flatten(al) == FlattenFrom(al, 1)

\* lines 70-72: state.shuffle(self.audio_indices); the seeded generator is
\* external, so every ordering p is a possible outcome (the identity is what
\* shuffle=False leaves)
Shuffled(flat, p) == [j \in 1..Len(flat) |-> flat[p[j] + 1]]

\* AudioLoader.__init__ over the catalogs al
NewLoader(name, al, p) ==
    [name |-> name, audio_lists |-> al, audio_indices |-> Shuffled(Flatten(al), p)]

\* the loaders over nsrc sources whose catalogs hold files from the
\* directories recs
LoadersOver(name, nsrc, recs) ==
    UNION {{NewLoader(name, al, p) : p \in Perms(Len(Flatten(al)))} :
           al \in {[s \in 1..nsrc |-> Catalog(dirs[s], name)] :
                      dirs \in [1..nsrc -> SUBSET recs]}}

\* what the decoder (AudioSignal.salient_excerpt, AudioSignal(path, ...)) can
\* do: return, or raise an exception of some class with some message.  The
\* messages: "tensor" is "The size of tensor a (5) must match the size of
\* tensor b (6) at non-singleton dimension 1", "empty" contains "is empty!",
\* "toobig" contains "array is too big".
Ok == [cls |-> "ok", msg |-> "ok"]

Failures ==
    {[cls |-> "LibsndfileError", msg |-> "other"], [cls |-> "OSError", msg |-> "other"]}
    \cup [cls : {"RuntimeError", "ValueError"}, msg : {"tensor", "empty", "toobig", "other"}]

\* line 117: except (RuntimeError, soundfile.LibsndfileError)
LoaderCatches(e) == e.cls \in {"RuntimeError", "LibsndfileError"}

\* lines 118-123: the failures the loader recovers from
LoaderRecognizes(e) ==
    e.cls = "LibsndfileError" \/ e.msg = "tensor" \/ e.msg = "empty"

\* the offset AudioSignal.zeros leaves in signal.metadata (the constructor's
\* default)
ZerosOffset == 0

Raised(exc) ==
    [status |-> "raised", exc |-> exc, source_idx |-> None, item_idx |-> None,
     path |-> NonePath, signal |-> "none", offset |-> None]

\* lines 100-103: the weighted random draw.  rnd: the pair
\* util.choose_from_list_of_lists draws (item -1: it drew an empty catalog and
\* randint raised)
ResolveRandom(l, a, rnd) ==
    LET hit == rnd[2] >= 0
    IN  [raised |-> IF hit THEN "none" ELSE "ValueError",
         source_idx |-> rnd[1], item_idx |-> rnd[2],
         info |-> IF hit THEN PyAt(PyAt(l.audio_lists, rnd[1]), rnd[2]) ELSE Sentinel]

\* lines 90-103: the item the call resolves to.  a: the call's arguments
Resolve(l, a, rnd) ==
    IF a.source_idx # None /\ a.item_idx # None
    THEN LET s == ValueOf(a.source_idx)
             i == ValueOf(a.item_idx)
             found == /\ PyValid(Len(l.audio_lists), s)
                      /\ PyValid(Len(PyAt(l.audio_lists, s)), i)
         IN  [raised |-> "none", source_idx |-> s, item_idx |-> i,
              info |-> IF found THEN PyAt(PyAt(l.audio_lists, s), i) ELSE Sentinel]
    ELSE IF a.global_idx # None
    THEN LET n == Len(l.audio_indices)
         IN  IF n = 0
             THEN [raised |-> "ZeroDivisionError", source_idx |-> 0, item_idx |-> 0,
                   info |-> Sentinel]
             ELSE LET pair == l.audio_indices[(ValueOf(a.global_idx) % n) + 1]
                      found == /\ PyValid(Len(l.audio_lists), pair[1])
                               /\ PyValid(Len(PyAt(l.audio_lists, pair[1])), pair[2])
                  IN  [raised |-> IF found THEN "none" ELSE "IndexError",
                       source_idx |-> pair[1], item_idx |-> pair[2],
                       info |-> IF found THEN PyAt(PyAt(l.audio_lists, pair[1]), pair[2])
                                ELSE Sentinel]
    ELSE ResolveRandom(l, a, rnd)

\* lines 105-137: the signal.  dec: what the decoder does on this call;
\* found_offset: the offset of the excerpt salient_excerpt finds
Decode(path, offset, dec, found_offset) ==
    IF path = NonePath
    THEN [raised |-> "none", signal |-> "silence", offset |-> Some(ZerosOffset)]
    ELSE IF offset = None
    THEN IF dec = Ok
         THEN [raised |-> "none", signal |-> "audio", offset |-> Some(found_offset)]
         ELSE IF LoaderCatches(dec) /\ LoaderRecognizes(dec)
         THEN [raised |-> "none", signal |-> "silence", offset |-> Some(ZerosOffset)]
         ELSE [raised |-> dec.cls, signal |-> "none", offset |-> None]
    ELSE IF dec = Ok
         THEN [raised |-> "none", signal |-> "audio", offset |-> offset]
         ELSE [raised |-> dec.cls, signal |-> "none", offset |-> None]

\* line 153: str(self.sources[source_idx]); sources has one entry per catalog
SourceKnown(l, source_idx) == PyValid(Len(l.audio_lists), source_idx)

\* AudioLoader.__call__ (lines 78-158)
LoaderCall(l, a, rnd, dec, found_offset) ==
    LET r == Resolve(l, a, rnd)
    IN  IF r.raised # "none" THEN Raised(r.raised)
        ELSE LET d == Decode(r.info, a.offset, dec, found_offset)
             IN  IF d.raised # "none" THEN Raised(d.raised)
                 ELSE IF ~SourceKnown(l, r.source_idx) THEN Raised("IndexError")
                 ELSE [status |-> "returned", exc |-> "none",
                       source_idx |-> Some(r.source_idx), item_idx |-> Some(r.item_idx),
                       path |-> r.info, signal |-> d.signal, offset |-> d.offset]

\* lines 124-129: the lines the call appends to /tmp/corrupt.txt: the path of
\* a file whose decode failed in a way the loader recovers from (the paths are
\* ASCII, so file.write does not raise UnicodeEncodeError)
CorruptLog(l, a, rnd, dec) ==
    LET r == Resolve(l, a, rnd)
    IN  IF /\ r.raised = "none"
           /\ r.info # NonePath
           /\ a.offset = None
           /\ dec # Ok
           /\ LoaderCatches(dec)
           /\ LoaderRecognizes(dec)
        THEN <<r.info>>
        ELSE <<>>

\* the arguments a caller can pass
OptIndex(hi) == {None} \cup {Some(v) : v \in -1..hi}

CallArgs(l) ==
    [source_idx : OptIndex(Len(l.audio_lists)),
     item_idx : OptIndex(MaxItems),
     global_idx : {None} \cup {Some(v) : v \in 0..1},
     offset : {None, Some(1)}]

\* the pairs util.choose_from_list_of_lists can draw
RandomDraws(l) ==
    UNION {IF Len(l.audio_lists[s]) = 0 THEN {<<s - 1, -1>>}
           ELSE {<<s - 1, i>> : i \in 0..(Len(l.audio_lists[s]) - 1)} :
           s \in 1..Len(l.audio_lists)}

\* the offset of the excerpt the loudness search settles on
FoundOffset == 2

LoaderInit ==
    /\ SamplerIdle
    /\ AlignIdle
    /\ StreamIdle
    /\ WorkersIdle
    /\ ConcatIdle
    /\ \E nsrc \in 1..Len(SourceNames) : \E l \in LoadersOver(Tracks[1], nsrc, 1..MaxItems) :
           loaders = <<l>>
    /\ call = NoCall
    /\ ret = NoCall
    /\ visited = <<>>
    /\ dataset = NoDataset
    /\ corrupt = <<>>

\* one call of the loader, with any arguments (the loader keeps nothing from
\* one call to the next, so one call per behaviour is observed)
Call ==
    /\ ret.status = "idle"
    /\ \E a \in CallArgs(loaders[1]), rnd \in RandomDraws(loaders[1]),
          dec \in {Ok} \cup Failures :
           /\ call' = [status |-> "called", args |-> a, rnd |-> rnd, dec |-> dec]
           /\ ret' = LoaderCall(loaders[1], a, rnd, dec, FoundOffset)
           /\ corrupt' = corrupt \o CorruptLog(loaders[1], a, rnd, dec)
    /\ UNCHANGED <<loaders, visited, dataset>>
    /\ UNCHANGED <<samplerVars, alignVars, streamVars>>
    /\ UNCHANGED <<workerVars, concatVars>>

LoaderNext == Call

SpecLoader == LoaderInit /\ [][LoaderNext]_vars

\* the sweep of the full-coverage property: global_idx = 0, 1, 2, ... in turn,
\* over files that decode
GlobalArgs(g) ==
    [source_idx |-> None, item_idx |-> None, global_idx |-> Some(g), offset |-> None]

SweepCall ==
    /\ Len(visited) <= Len(loaders[1].audio_indices)
    /\ LET a == GlobalArgs(Len(visited))
           r == LoaderCall(loaders[1], a, <<0, 0>>, Ok, FoundOffset)
       IN  /\ call' = [status |-> "called", args |-> a, rnd |-> <<0, 0>>, dec |-> Ok]
           /\ ret' = r
           /\ visited' = IF r.status = "returned"
                         THEN Append(visited, <<ValueOf(r.source_idx), ValueOf(r.item_idx)>>)
                         ELSE visited
           /\ corrupt' = corrupt \o CorruptLog(loaders[1], a, <<0, 0>>, Ok)
    /\ UNCHANGED <<loaders, dataset>>
    /\ UNCHANGED <<samplerVars, alignVars, streamVars>>
    /\ UNCHANGED <<workerVars, concatVars>>

SweepNext == SweepCall

SpecSweep == LoaderInit /\ [][SweepNext]_vars

(***************************************************************************)
(* Claims on AudioLoader (checked under SpecSweep and SpecLoader)          *)
(***************************************************************************)
\* every (source_idx, item_idx) position of the catalogs al
CatalogPairs(al) ==
    UNION {{<<s - 1, i - 1>> : i \in 1..Len(al[s])} : s \in 1..Len(al)}

\* C4: for a loader whose flattened index list has N > 0 entries, shuffled or
\* not, sampling with global_idx = 0..N-1 resolves to every (source_idx,
\* item_idx) pair of its catalogs exactly once, and global_idx = N resolves to
\* the pair of global_idx = 0.
C4_FullCoverage ==
    LET l == loaders[1]
        N == Len(l.audio_indices)
        pairs == CatalogPairs(l.audio_lists)
        done == IF Len(visited) < N THEN Len(visited) ELSE N
    IN  N > 0 =>
            /\ \A j \in 1..Len(visited) : visited[j] \in pairs
            /\ \A j, k \in 1..done : visited[j] = visited[k] => j = k
            /\ Len(visited) >= N => {visited[j] : j \in 1..N} = pairs
            /\ Len(visited) = N + 1 => visited[N + 1] = visited[1]

C4_Witness ==
    /\ Len(loaders[1].audio_lists) = 2
    /\ Len(loaders[1].audio_indices) = 4
    /\ loaders[1].audio_indices # Flatten(loaders[1].audio_lists)
    /\ Len(visited) = 5
    /\ visited[5] = visited[1]
    /\ {visited[j] : j \in 1..4} = CatalogPairs(loaders[1].audio_lists)

\* the call passed an explicit (source_idx, item_idx) of which one is out of
\* range for the catalogs
ExplicitOutOfRange ==
    /\ call.status = "called"
    /\ call.args.source_idx # None
    /\ call.args.item_idx # None
    /\ LET al == loaders[1].audio_lists
           s == ValueOf(call.args.source_idx)
           i == ValueOf(call.args.item_idx)
       IN  ~PyValid(Len(al), s) \/ ~PyValid(Len(PyAt(al, s)), i)

\* C8 as stated: a call with an explicit (source_idx, item_idx) of which either
\* is out of range returns a sample of the sentinel item (silent signal, path
\* "none") and does not raise.
C8_OutOfRangeFailsSoft ==
    ExplicitOutOfRange =>
        /\ ret.status = "returned"
        /\ ret.path = NonePath
        /\ ret.signal = "silence"

\* the call resolved to a non-sentinel item and its decode raised
DecodeFailed ==
    /\ call.status = "called"
    /\ call.dec # Ok
    /\ LET r == Resolve(loaders[1], call.args, call.rnd)
       IN  /\ r.raised = "none"
           /\ r.info # NonePath
           /\ SourceKnown(loaders[1], r.source_idx)

\* C9 as stated: when the decode of a non-sentinel item raises a recognized
\* failure, the call returns with a silent signal, whether the window is found
\* by the loudness search or an explicit offset is supplied; any other
\* exception propagates.
C9_DecodeFailureHandled ==
    DecodeFailed =>
        IF LoaderCatches(call.dec) /\ LoaderRecognizes(call.dec)
        THEN ret.status = "returned" /\ ret.signal = "silence"
        ELSE ret.status = "raised" /\ ret.exc = call.dec.cls

(***************************************************************************)
(* decode_audiosignal                                                      *)
(***************************************************************************)
\* line 588: except (RuntimeError, soundfile.LibsndfileError, ValueError)
StreamCatches(e) == e.cls \in {"RuntimeError", "LibsndfileError", "ValueError"}

\* lines 589-595: the failures the stage skips
StreamRecognizesLikeLoader(e) ==
    e.cls = "LibsndfileError" \/ e.msg = "tensor" \/ e.msg = "empty"

StreamRecognizes(e) ==
    e.cls = "LibsndfileError" \/ e.msg = "tensor" \/ e.msg = "empty" \/ e.msg = "toobig"

\* a grouped sample: whether one of its keys has an audio extension (lines
\* 567-572), what decoding that entry does, and how many excerpts it gives
NoAudioSample == [audio |-> FALSE, dec |-> Ok, excerpts |-> 0]

Samples ==
    {NoAudioSample}
    \cup {[audio |-> TRUE, dec |-> Ok, excerpts |-> n] : n \in 0..MaxExcerpts}
    \cup {[audio |-> TRUE, dec |-> e, excerpts |-> 0] : e \in Failures}

\* line 612: {**sample, "signal": signal}: the entries of sample p that are left
\* after `del sample[key]`, with its e-th excerpt
Record(p, e) == [sample |-> p, signal |-> e]

\* lines 566-612 from sample p on, up to the next yield, the end of the input
\* or an exception that is raised
RECURSIVE Scan(_, _)
Scan(d, p) ==
    IF p > Len(d) THEN [kind |-> "done", pos |-> p]
    ELSE IF ~d[p].audio THEN Scan(d, p + 1)
    ELSE IF d[p].dec # Ok
    THEN IF StreamCatches(d[p].dec) /\ StreamRecognizes(d[p].dec)
         THEN Scan(d, p + 1)
         ELSE [kind |-> "raise", pos |-> p]
    ELSE IF d[p].excerpts = 0 THEN Scan(d, p + 1)
    ELSE [kind |-> "yield", pos |-> p]

StreamInit ==
    /\ SamplerIdle
    /\ AlignIdle
    /\ LoaderIdle
    /\ WorkersIdle
    /\ ConcatIdle
    /\ \E n \in 0..MaxSamples : data \in [1..n -> Samples]
    /\ d_state = "running"
    /\ d_pos = 0
    /\ d_exc = 0
    /\ d_out = <<>>

\* next() on the generator: the next excerpt of the sample being fanned out
\* (line 611), or on to the following samples
PullRecord ==
    /\ d_state = "running"
    /\ IF d_pos >= 1 /\ d_exc < data[d_pos].excerpts
       THEN /\ d_out' = Append(d_out, Record(d_pos, d_exc + 1))
            /\ d_exc' = d_exc + 1
            /\ UNCHANGED <<d_pos, d_state>>
       ELSE LET nxt == Scan(data, d_pos + 1)
            IN  /\ d_pos' = nxt.pos
                /\ d_exc' = IF nxt.kind = "yield" THEN 1 ELSE 0
                /\ d_out' = IF nxt.kind = "yield"
                            THEN Append(d_out, Record(nxt.pos, 1)) ELSE d_out
                /\ d_state' = CASE nxt.kind = "yield" -> "running"
                                [] nxt.kind = "done" -> "done"
                                [] OTHER -> "raised"
    /\ UNCHANGED data
    /\ UNCHANGED <<samplerVars, alignVars, loaderVars>>
    /\ UNCHANGED <<workerVars, concatVars>>

StreamNext == PullRecord

SpecStream == StreamInit /\ [][StreamNext]_vars

(***************************************************************************)
(* Claims on decode_audiosignal (checked under SpecStream)                 *)
(***************************************************************************)
\* the failures the claim has the stage skip: corruption, emptiness,
\* pathological size
SkippedFailure(e) ==
    \/ e.cls = "LibsndfileError"
    \/ e.cls \in {"RuntimeError", "ValueError"} /\ e.msg \in {"tensor", "empty", "toobig"}

FatalSample(x) == x.audio /\ x.dec # Ok /\ ~SkippedFailure(x.dec)

\* the records of the samples from p on, up to the first sample whose decode
\* raises any other exception
RECURSIVE ExpectedFrom(_, _)
ExpectedFrom(d, p) ==
    IF p > Len(d) \/ FatalSample(d[p]) THEN <<>>
    ELSE (IF d[p].audio /\ d[p].dec = Ok
          THEN [e \in 1..d[p].excerpts |-> [sample |-> p, signal |-> e]]
          ELSE <<>>) \o ExpectedFrom(d, p + 1)

IsPrefix(a, b) == Len(a) <= Len(b) /\ \A j \in 1..Len(a) : a[j] = b[j]

\* C10: a sample whose decode raises a recognized failure, or that has no audio
\* entry, gives no record and the stage goes on, so the records of the other
\* samples come out unchanged and in input order; any other exception ends the
\* stream, after the records of the samples before it and with none after.
C10_DecodeStage ==
    d_state # Idle =>
        LET exp == ExpectedFrom(data, 1)
            fatal == \E p \in 1..Len(data) : FatalSample(data[p])
        IN  /\ IsPrefix(d_out, exp)
            /\ d_state = "done" => (d_out = exp /\ ~fatal)
            /\ d_state = "raised" => (d_out = exp /\ fatal)

C10_Witness ==
    /\ Len(data) = 3
    /\ data[1] = [audio |-> TRUE, dec |-> Ok, excerpts |-> 2]
    /\ data[2] = [audio |-> TRUE, dec |-> [cls |-> "ValueError", msg |-> "toobig"], excerpts |-> 0]
    /\ data[3] = [audio |-> TRUE, dec |-> Ok, excerpts |-> 1]
    /\ d_state = "done"
    /\ d_out = <<Record(1, 1), Record(1, 2), Record(3, 1)>>

(***************************************************************************)
(* AudioDataset                                                            *)
(***************************************************************************)
\* lines 417-420: for each source of the first loader, align the loaders'
\* catalogs of that source in place
RECURSIVE AlignSources(_, _, _)
AlignSources(ls, m, i) ==
    IF i > Len(ls[1].audio_lists) THEN ls
    ELSE LET aligned == AlignLists([t \in 1..Len(ls) |-> ls[t].audio_lists[i]], m)
         IN  AlignSources([t \in 1..Len(ls) |->
                              [ls[t] EXCEPT !.audio_lists[i] = aligned[t]]], m, i + 1)

\* AudioDataset.__init__ (lines 381-420): what it leaves of the loaders
ConstructedLoaders(ls, cfg) ==
    IF cfg.aligned THEN AlignSources(ls, cfg.matcher, 1) ELSE ls

DatasetConfigs ==
    {c \in [status : {"constructed"}, aligned : BOOLEAN, shuffle_loaders : BOOLEAN,
            without_replacement : BOOLEAN, matcher : Matchers] :
        ~c.aligned => c.matcher = "parent"}

\* the loaders of a dataset: one per track, each over one source
DatasetLoaders(n) ==
    LET options(t) == LoadersOver(Tracks[t], 1, Recordings)
    IN  {ls \in [1..n -> UNION {options(t) : t \in 1..n}] :
            \A t \in 1..n : ls[t] \in options(t)}

DatasetInit ==
    /\ SamplerIdle
    /\ AlignIdle
    /\ StreamIdle
    /\ WorkersIdle
    /\ ConcatIdle
    /\ \E n \in 1..Len(Tracks) :
          loaders \in DatasetLoaders(n)
    /\ call = NoCall
    /\ ret = NoCall
    /\ visited = <<>>
    /\ dataset = NoDataset
    /\ corrupt = <<>>

\* AudioDataset(loaders, ...)
Construct ==
    /\ dataset = NoDataset
    /\ \E cfg \in DatasetConfigs :
          /\ \A t \in 1..Len(loaders) :
                Len(loaders[t].audio_lists) >= Len(loaders[1].audio_lists)
          /\ dataset' = cfg
          /\ loaders' = ConstructedLoaders(loaders, cfg)
    /\ UNCHANGED <<call, ret, visited, corrupt>>
    /\ UNCHANGED <<samplerVars, alignVars, streamVars>>
    /\ UNCHANGED <<workerVars, concatVars>>

\* lines 431-438: the keyword arguments of the first loader's call
FirstArgs(cfg, idx) ==
    [source_idx |-> None, item_idx |-> None, offset |-> None,
     global_idx |-> IF cfg.without_replacement THEN Some(idx) ELSE None]

\* lines 446-456: the keyword arguments of a later loader's call, given what the
\* first loader returned
LaterArgsWithoutItem(cfg, idx, first) ==
    IF cfg.aligned
    THEN [FirstArgs(cfg, idx) EXCEPT !.offset = first.offset,
                                     !.source_idx = first.source_idx]
    ELSE FirstArgs(cfg, idx)

LaterArgs(cfg, idx, first) ==
    IF cfg.aligned
    THEN [FirstArgs(cfg, idx) EXCEPT !.offset = first.offset,
                                     !.source_idx = first.source_idx,
                                     !.item_idx = first.item_idx]
    ELSE FirstArgs(cfg, idx)

\* lines 459-461: the item's tracks put back into the declared loader order;
\* called[j] is what the j-th called loader, order[j], returned
DeclaredOrder(called, order) ==
    [t \in 1..Len(called) |-> called[CHOOSE j \in 1..Len(order) : order[j] = t]]

\* AudioDataset.__getitem__ (lines 422-475).  order: the loaders in the order
\* they are called; rnd, dec: per loader, its random draw and what its decode
\* does
GetItemOf(ls, cfg, idx, order, rnd, dec) ==
    LET n == Len(ls)
        f == order[1]
        first == LoaderCall(ls[f], FirstArgs(cfg, idx), rnd[f], dec[f], FoundOffset)
        args == [j \in 1..n |->
                    IF j = 1 THEN FirstArgs(cfg, idx) ELSE LaterArgs(cfg, idx, first)]
        called == [j \in 1..n |->
                      IF j = 1 THEN first
                      ELSE LoaderCall(ls[order[j]], args[j], rnd[order[j]],
                                      dec[order[j]], FoundOffset)]
        failed == {j \in 1..n : called[j].status = "raised"}
    IN  IF first.status = "raised" THEN [status |-> "raised", exc |-> first.exc]
        ELSE IF failed # {}
        THEN [status |-> "raised",
              exc |-> called[CHOOSE j \in failed : \A k \in failed : j <= k].exc]
        ELSE [status |-> "returned", idx |-> idx,
              tracks |-> DeclaredOrder([j \in 1..n |->
                            [name |-> ls[order[j]].name, args |-> args[j],
                             sample |-> called[j]]], order)]

\* s[1] \o s[2] \o ... from s[j] on
RECURSIVE Chain(_, _)
Chain(ss, j) == IF j > Len(ss) THEN <<>> ELSE ss[j] \o Chain(ss, j + 1)

\* what the loader calls of one __getitem__ append to /tmp/corrupt.txt: the
\* lines of the calls made until one raises
GetItemLog(ls, cfg, idx, order, rnd, dec) ==
    LET n == Len(ls)
        f == order[1]
        first == LoaderCall(ls[f], FirstArgs(cfg, idx), rnd[f], dec[f], FoundOffset)
        args == [j \in 1..n |->
                    IF j = 1 THEN FirstArgs(cfg, idx) ELSE LaterArgs(cfg, idx, first)]
        called == [j \in 1..n |->
                      LoaderCall(ls[order[j]], args[j], rnd[order[j]],
                                 dec[order[j]], FoundOffset)]
        reached(j) == \A k \in 1..(j - 1) : called[k].status = "returned"
    IN  Chain([j \in 1..n |->
                  IF reached(j)
                  THEN CorruptLog(ls[order[j]], args[j], rnd[order[j]], dec[order[j]])
                  ELSE <<>>], 1)

\* the orders state.shuffle(keys) can leave the loaders in (line 429)
CallOrders(n, shuffle) ==
    IF shuffle THEN {[j \in 1..n |-> p[j] + 1] : p \in Perms(n)}
    ELSE {[j \in 1..n |-> j]}

\* the failures a decode is given in a dataset: one the loader recovers from,
\* one it does not
DatasetDecodes ==
    {Ok, [cls |-> "LibsndfileError", msg |-> "other"], [cls |-> "OSError", msg |-> "other"]}

\* the random draws that matter: the loaders that are asked to draw
Draws(ls, cfg, order) ==
    {r \in [1..Len(ls) -> UNION {RandomDraws(ls[t]) : t \in 1..Len(ls)} \cup {<<0, 0>>}] :
        \A t \in 1..Len(ls) :
            IF ~cfg.without_replacement /\ (t = order[1] \/ ~cfg.aligned)
            THEN r[t] \in RandomDraws(ls[t])
            ELSE r[t] = <<0, 0>>}

\* dataset[idx] (one call per behaviour is observed)
GetItem ==
    /\ dataset # NoDataset
    /\ ret.status = "idle"
    /\ \E idx \in 0..MaxIdx :
       \E order \in CallOrders(Len(loaders), dataset.shuffle_loaders) :
       \E rnd \in Draws(loaders, dataset, order) :
       \E dec \in [1..Len(loaders) -> DatasetDecodes] :
          /\ call' = [status |-> "called", idx |-> idx, order |-> order,
                      rnd |-> rnd, dec |-> dec]
          /\ ret' = GetItemOf(loaders, dataset, idx, order, rnd, dec)
          /\ corrupt' = corrupt \o GetItemLog(loaders, dataset, idx, order, rnd, dec)
    /\ UNCHANGED <<loaders, visited, dataset>>
    /\ UNCHANGED <<samplerVars, alignVars, streamVars>>
    /\ UNCHANGED <<workerVars, concatVars>>

DatasetNext == Construct \/ GetItem

SpecDataset == DatasetInit /\ [][DatasetNext]_vars

(***************************************************************************)
(* Claims on AudioDataset (checked under SpecDataset)                      *)
(***************************************************************************)
\* C7: in a dataset with aligned=True, for any idx and any call order, every
\* loader called after the first is invoked with the source_idx, item_idx and
\* offset the first-called loader produced, every track of the returned item
\* carries the first-called track's source_idx and item_idx, and the item lists
\* the tracks in the declared loader order.
C7_AlignedTracks ==
    (dataset # NoDataset /\ ret.status = "returned" /\ dataset.aligned) =>
        LET f == call.order[1]
            first == ret.tracks[f].sample
        IN  /\ Len(ret.tracks) = Len(loaders)
            /\ \A t \in 1..Len(ret.tracks) :
                  /\ ret.tracks[t].name = Tracks[t]
                  /\ ret.tracks[t].sample.source_idx = first.source_idx
                  /\ ret.tracks[t].sample.item_idx = first.item_idx
                  /\ t # f =>
                        /\ ret.tracks[t].args.source_idx = first.source_idx
                        /\ ret.tracks[t].args.item_idx = first.item_idx
                        /\ ret.tracks[t].args.offset = first.offset

C7_Witness ==
    /\ dataset # NoDataset
    /\ dataset.aligned
    /\ dataset.shuffle_loaders
    /\ ret.status = "returned"
    /\ Len(loaders) = 3
    /\ call.order = <<3, 1, 2>>
    /\ ret.tracks[3].sample.signal = "audio"
    /\ ret.tracks[3].sample.item_idx = Some(1)
    /\ ret.tracks[1].args.item_idx = Some(1)
    /\ ret.tracks[1].args.offset = Some(FoundOffset)
    /\ ret.tracks[1].sample.path = NonePath
    /\ ret.tracks[2].sample.signal = "audio"
    /\ ret.tracks[2].sample.item_idx = Some(1)

(***************************************************************************)
(* Sampling a loader of a constructed dataset without replacement          *)
(***************************************************************************)
\* loader t of the dataset called with global_idx = 0, 1, ..., N - 1 in turn, N
\* the length of its flattened index list, over files that decode
SweepLoader ==
    /\ dataset # NoDataset
    /\ \E t \in 1..Len(loaders) :
          /\ call.status = "called" => call.loader = t
          /\ Len(visited) < Len(loaders[t].audio_indices)
          /\ LET a == GlobalArgs(Len(visited))
                 r == LoaderCall(loaders[t], a, <<0, 0>>, Ok, FoundOffset)
             IN  /\ call' = [status |-> "called", loader |-> t, args |-> a,
                             rnd |-> <<0, 0>>, dec |-> Ok]
                 /\ ret' = r
                 /\ visited' = IF r.status = "returned"
                               THEN Append(visited,
                                           <<ValueOf(r.source_idx), ValueOf(r.item_idx)>>)
                               ELSE visited
                 /\ corrupt' = corrupt \o CorruptLog(loaders[t], a, <<0, 0>>, Ok)
    /\ UNCHANGED <<loaders, dataset>>
    /\ UNCHANGED <<samplerVars, alignVars, streamVars>>
    /\ UNCHANGED <<workerVars, concatVars>>

AlignedSweepNext == Construct \/ SweepLoader

SpecAlignedSweep == DatasetInit /\ [][AlignedSweepNext]_vars

\* the positions of the catalogs al that hold a file (no sentinel)
FilePositions(al) ==
    {pos \in CatalogPairs(al) : ~IsSentinel(PyAt(PyAt(al, pos[1]), pos[2]))}

\* C13 as stated: after a dataset is constructed with aligned=True, sampling
\* one of its loaders with global_idx = 0..N-1, N the length of the loader's
\* flattened index list, resolves to every non-sentinel item of the loader's
\* catalogs exactly once.
C13_AlignedCoverage ==
    (dataset # NoDataset /\ dataset.aligned /\ call.status = "called") =>
        LET l == loaders[call.loader]
            N == Len(l.audio_indices)
        IN  Len(visited) = N =>
                /\ {visited[j] : j \in 1..N} = FilePositions(l.audio_lists)
                /\ \A j, k \in 1..N : visited[j] = visited[k] => j = k

(***************************************************************************)
(* AudioDataset.__getitem__ called from parallel workers                   *)
(***************************************************************************)
\* the worker processes that share the dataset, its loaders and the file
\* system
Workers == {"w1", "w2"}

\* a worker that is not inside __getitem__
IdleWorker == [pc |-> "idle", idx |-> 0, order |-> <<>>, rnd |-> <<>>, result |-> NoCall]

\* the decodes of a worker's call: all succeed, or the file of one loader fails
\* to open
WorkerDecodes(n) ==
    {[t \in 1..n |-> IF t = bad THEN [cls |-> "LibsndfileError", msg |-> "other"] ELSE Ok] :
         bad \in 0..n}

\* what a returned item says of each track: (source_idx, item_idx, path)
Resolution(item) ==
    IF item.status = "returned"
    THEN [status |-> "returned",
          tracks |-> [t \in 1..Len(item.tracks) |->
                         <<item.tracks[t].sample.source_idx,
                           item.tracks[t].sample.item_idx,
                           item.tracks[t].sample.path>>]]
    ELSE [status |-> "raised"]

\* a dataset shared by the workers: one or two loaders, constructed
WorkersInit ==
    /\ SamplerIdle
    /\ AlignIdle
    /\ StreamIdle
    /\ ConcatIdle
    /\ \E n \in {1, 2} : \E ls \in DatasetLoaders(n) : \E cfg \in DatasetConfigs :
          /\ loaders = ConstructedLoaders(ls, cfg)
          /\ dataset = cfg
    /\ call = NoCall
    /\ ret = NoCall
    /\ visited = <<>>
    /\ corrupt = <<>>
    /\ workers = [w \in Workers |-> IdleWorker]
    /\ seeded = [i \in 0..MaxIdx |-> {}]

\* lines 423-429: worker w enters dataset[idx]; state = util.random_state(idx)
\* is a generator seeded with idx, so what it draws (the order of the loaders,
\* the items drawn at random) is whatever the seed idx drew before
Begin(w) ==
    /\ workers[w].pc = "idle"
    /\ \E idx \in 0..MaxIdx :
       \E order \in CallOrders(Len(loaders), dataset.shuffle_loaders) :
       \E rnd \in Draws(loaders, dataset, order) :
          LET draw == [order |-> order, rnd |-> rnd]
          IN  /\ seeded[idx] # {} => draw \in seeded[idx]
              /\ seeded' = [seeded EXCEPT ![idx] = {draw}]
              /\ workers' = [workers EXCEPT ![w] =
                     [pc |-> "sampling", idx |-> idx, order |-> order, rnd |-> rnd,
                      result |-> NoCall]]
    /\ UNCHANGED loaderVars
    /\ UNCHANGED <<samplerVars, alignVars, streamVars, concatVars>>

\* lines 431-475: worker w calls the loaders and returns (or raises)
Finish(w) ==
    /\ workers[w].pc = "sampling"
    /\ \E dec \in WorkerDecodes(Len(loaders)) :
          LET me == workers[w]
          IN  /\ workers' = [workers EXCEPT ![w] =
                     [me EXCEPT !.pc = "done",
                                !.result = Resolution(GetItemOf(loaders, dataset, me.idx,
                                                                me.order, me.rnd, dec))]]
              /\ corrupt' = corrupt \o GetItemLog(loaders, dataset, me.idx,
                                                   me.order, me.rnd, dec)
    /\ UNCHANGED <<loaders, call, ret, visited, dataset, seeded>>
    /\ UNCHANGED <<samplerVars, alignVars, streamVars, concatVars>>

WorkersNext == \E w \in Workers : Begin(w) \/ Finish(w)

SpecWorkers == WorkersInit /\ [][WorkersNext]_vars

\* any two finished calls for the same idx resolved every track to the same
\* (source_idx, item_idx, path)
SameResolution ==
    \A v, w \in Workers :
        (/\ workers[v].pc = "done" /\ workers[w].pc = "done"
         /\ workers[v].idx = workers[w].idx
         /\ workers[v].result.status = "returned"
         /\ workers[w].result.status = "returned")
            => workers[v].result = workers[w].result

\* the loaders' catalogs and index lists and the dataset's fields are what
\* they were, whatever the workers do
ObjectsUnchanged == [][loaders' = loaders /\ dataset' = dataset]_vars

\* C12 as stated: AudioDataset.__getitem__(idx) writes no shared state: no step
\* of a call changes the loaders' catalogs or flattened index lists, the
\* dataset's fields or anything else the workers share (the file
\* /tmp/corrupt.txt), and, the random state being built from idx alone, calls
\* for the same idx resolve every track to the same (source_idx, item_idx,
\* path) under every interleaving with other calls.
C12_NoSharedWrites ==
    [][/\ loaders' = loaders
       /\ dataset' = dataset
       /\ corrupt' = corrupt
       /\ SameResolution']_vars

(***************************************************************************)
(* ConcatDataset                                                           *)
(***************************************************************************)
\* AudioDataset.__len__ (lines 477-478): the configured length
DatasetLen(d) == d.length

\* line 506: sum([len(d) for d in self.datasets])
RECURSIVE SumLens(_, _)
SumLens(ds, m) == IF m > Len(ds) THEN 0 ELSE DatasetLen(ds[m]) + SumLens(ds, m + 1)

ConcatLen(ds) == SumLens(ds, 1)

\* contiguous ranges, member after member
ConcatRouteContiguous(ds, idx) ==
    LET walk[m \in 1..Len(ds)] ==
            LET before == SumLens([k \in 1..(m - 1) |-> ds[k]], 1)
            IN  IF m = Len(ds) \/ idx < before + DatasetLen(ds[m])
                THEN <<m - 1, idx - before>>
                ELSE walk[m + 1]
    IN  walk[1]

\* lines 509-510: the member idx is routed to and the index it is asked for
\* (idx >= 0, where Python's % and // are TLA+'s % and \div)
ConcatRoute(ds, idx) == <<idx % Len(ds), idx \div Len(ds)>>

\* what a member returns for dataset[inner]: AudioDataset.__getitem__ takes any
\* inner >= 0, whatever its length, and the item carries item["idx"] (line 463)
MemberItem(inner) == [idx |-> inner]

\* ConcatDataset.__getitem__ (lines 508-510)
ConcatGetItemOf(ds, idx) ==
    IF Len(ds) = 0 THEN [status |-> "raised", exc |-> "ZeroDivisionError"]
    ELSE LET r == ConcatRoute(ds, idx)
         IN  [status |-> "returned", member |-> r[1], item |-> MemberItem(r[2])]

\* ConcatDataset(datasets) over members of any lengths
ConcatInit ==
    /\ SamplerIdle
    /\ AlignIdle
    /\ LoaderIdle
    /\ StreamIdle
    /\ WorkersIdle
    /\ \E c \in 0..MaxMembers : datasets \in [1..c -> [length : 0..MaxMemberLen]]
    /\ c_len = None
    /\ routes = <<>>

\* len(concat)
ConcatLenCall ==
    /\ c_len = None
    /\ c_len' = Some(ConcatLen(datasets))
    /\ UNCHANGED <<datasets, routes>>
    /\ UNCHANGED <<samplerVars, alignVars, loaderVars, streamVars, workerVars>>

\* concat[idx] for idx = 0, 1, ... in turn, up to two past its length
ConcatGetItem ==
    /\ Len(routes) <= ConcatLen(datasets) + 1
    /\ routes' = Append(routes, ConcatGetItemOf(datasets, Len(routes)))
    /\ UNCHANGED <<datasets, c_len>>
    /\ UNCHANGED <<samplerVars, alignVars, loaderVars, streamVars, workerVars>>

ConcatNext == ConcatLenCall \/ ConcatGetItem

SpecConcat == ConcatInit /\ [][ConcatNext]_vars

(***************************************************************************)
(* Claims on ConcatDataset (checked under SpecConcat)                      *)
(***************************************************************************)
\* the valid positions (member, j) of the members: j < len(member)
Positions(ds) ==
    UNION {{<<m - 1, j>> : j \in 0..(ds[m].length - 1)} : m \in 1..Len(ds)}

\* C11: a ConcatDataset over c >= 1 datasets reports the sum of their lengths
\* as its length, and concat[idx] is item q of dataset m where idx = q * c + m
\* and 0 <= m < c (q = idx div c, m = idx mod c); over datasets of lengths 2
\* and 3, idx = 0..4 go to datasets 0,1,0,1,0 with inner indices 0,0,1,1,2.
C11_RoundRobinRouting ==
    LET c == Len(datasets)
    IN  c >= 1 =>
            /\ c_len # None => ValueOf(c_len) = Cardinality(Positions(datasets))
            /\ \A j \in 1..Len(routes) :
                  /\ routes[j].status = "returned"
                  /\ routes[j].member \in 0..(c - 1)
                  /\ routes[j].item.idx * c + routes[j].member = j - 1
            /\ (c = 2 /\ datasets[1].length = 2 /\ datasets[2].length = 3) =>
                  \A j \in 1..Len(routes) :
                      j <= 5 =>
                          /\ routes[j].member = <<0, 1, 0, 1, 0>>[j]
                          /\ routes[j].item.idx = <<0, 0, 1, 1, 2>>[j]

C11_Witness ==
    /\ datasets = <<[length |-> 2], [length |-> 3]>>
    /\ c_len = Some(5)
    /\ Len(routes) = 5
    /\ [j \in 1..5 |-> routes[j].member] = <<0, 1, 0, 1, 0>>
    /\ [j \in 1..5 |-> routes[j].item.idx] = <<0, 0, 1, 1, 2>>

\* C14 as stated: over members of any lengths, the routing of idx = 0..len-1
\* is one-to-one onto the members' valid positions: every idx goes to an
\* inner index smaller than the length of the member it is routed to, and
\* every position j < len(d) of every member d is reached by exactly one idx.
C14_RoutingBijective ==
    LET L == ConcatLen(datasets)
        at(j) == <<routes[j].member, routes[j].item.idx>>
    IN  (Len(datasets) >= 1 /\ Len(routes) >= L) =>
            /\ \A j \in 1..L : at(j) \in Positions(datasets)
            /\ \A pos \in Positions(datasets) :
                  Cardinality({j \in 1..L : at(j) = pos}) = 1

=============================================================================
